---- MODULE Spec2Model ----
(***************************************************************************)
(* Model of finit's bootstrap orchestration core.                          *)
(*                                                                         *)
(*   Part I   the bootstrap sequencer of src/src/finit.c: the work items   *)
(*            crank_worker, bootstrap_worker and finalize, run one at a    *)
(*            time by the event loop.                                      *)
(*   Part II  the configuration parser of src/conf.c: parse_finit_conf     *)
(*            with its include recursion, and parse_finit_d.               *)
(*                                                                         *)
(* Text is modelled as sequences of ASCII codes, so that prefix matching,  *)
(* case folding, path building and sorting are computed, not assumed.      *)
(* The specifications share     the variables: Spec and FairSpec run the     *)
(* sequencer, ConfSpec runs parse_finit_conf on a root file, DirSpec runs  *)
(* parse_finit_d on a fragment directory, MaskSpec runs parse_runlevels on *)
(* a runlevel text.                                                        *)
(***************************************************************************)
EXTENDS Integers, Sequences, FiniteSets, TLC

VARIABLES
    \* ---- src/src/finit.c ----
    bootstrap,      \* int bootstrap: 1 while bootstrapping
    cnt,            \* static int cnt of bootstrap_worker
    rescue,         \* int rescue: rescue mode from the kernel command line
    runparts_dir,   \* runparts && fisdir(runparts), as the file system answers
    rc_local,       \* !access(FINIT_RC_LOCAL, X_OK), as the file system answers
    wq,             \* pending work items of the event loop, in firing order
    now,            \* the event loop's clock (msec)
    calls,          \* the calls issued to the external collaborators, in order
    polls,          \* one record per bootstrap_worker tick: what it saw and did
    \* ---- src/conf.c ----
    cf,             \* the configuration globals and the registries they feed
    fs,             \* the file system: path -> [kind, exec, mtime, content]
    dents,          \* the names scandir() finds in the fragment directory
    pc,             \* where the running entry point stands
    stack,          \* the active parse_conf() calls: [file, pos, line]
    result,         \* the value the entry point returned
    included,       \* one record per include directive: how it was resolved
    e,              \* the sorted entry array of parse_finit_d
    idx,            \* its loop index i
    loaded,         \* the parse_conf_dynamic() calls made, in order
    runlevels,      \* the argument of a call of parse_runlevels
    bitmask         \* the mask it returned

seqvars == <<bootstrap, cnt, rescue, runparts_dir, rc_local, wq, now, calls, polls>>

confvars == <<cf, fs, dents, pc, stack, result, included, e, idx, loaded>>

rlvars == <<runlevels, bitmask>>

vars == <<seqvars, confvars, rlvars>>

----------------------------------------------------------------------------
(* Program constants *)

\* static int cnt = 120
CNT_INIT == 120
\* .delay of struct wq crank
CRANK_DELAY == 10
\* .delay of struct wq bootstrap
BOOTSTRAP_DELAY == 100
\* .delay of struct wq final
FINAL_DELAY == 10
\* RUNLEVEL, the default of cfglevel (finit.h)
RUNLEVEL == 2
\* CMD_SIZE, the size of the command and path buffers (finit.h)
CMD_SIZE == 256
\* LINE_SIZE, the size of the line buffer of parse_conf and
\* parse_conf_dynamic (finit.h)
LINE_SIZE == 1024

\* char *rcsd = FINIT_RCSD
rcsd == <<47, 101, 116, 99, 47, 102, 105, 110, 105, 116, 46, 100>> (* "/etc/finit.d" *)
\* FINIT_CONF, the canonical root file
FINIT_CONF == <<47, 101, 116, 99, 47, 102, 105, 110, 105, 116, 46, 99, 111, 110, 102>> (* "/etc/finit.conf" *)
\* DEFUSER and DEFHOST of parse_finit_conf, FALLBACK_SHELL of its tail
DEFUSER == <<114, 111, 111, 116>> (* "root" *)
DEFHOST == <<110, 111, 110, 97, 109, 101>> (* "noname" *)
FALLBACK_SHELL == <<47, 98, 105, 110, 47, 115, 104>> (* "/bin/sh" *)

\* A null pointer; no C string holds the code 0
NULL == <<0>>

(* Bounds of the model *)

\* No run of the sequencer is followed beyond this many bootstrap_worker ticks
MaxTicks == 124
\* The longest root file built from the core lines
MaxLines == 3
\* The most entries, besides . and .., of a fragment directory
MaxEntries == 4
\* The longest runlevel text, counted behind its opening bracket
MaxBody == 3

----------------------------------------------------------------------------
(* Text                                                                    *)

\* isblank(), tolower(), isdigit() and isspace() of <ctype.h>, C locale
isblank(c) == c = 32 \/ c = 9
tolower(c) == IF c >= 65 /\ c <= 90 THEN c + 32 ELSE c
isdigit(c) == c >= 48 /\ c <= 57
isspace(c) == c = 32 \/ (c >= 9 /\ c <= 13)

Min(a, b) == IF a < b THEN a ELSE b

\* strlcpy(cmd, s, sizeof(cmd)), strlcat and snprintf into a CMD_SIZE buffer:
\* what does not fit is cut off
strlcpy(s) == SubSeq(s, 1, Min(Len(s), CMD_SIZE - 1))

\* snprintf(buf, sizeof(buf), "%s/%s", a, b)
PathJoin(a, b) == strlcpy(a \o <<47>> \o b)

\* The test of MATCH_CMD with strncmp in the place of strncasecmp
MATCH_CMD_strncmp(l, c) ==
    /\ Len(l) >= Len(c)
    /\ \A i \in 1..Len(c) : l[i] = c[i]

\* MATCH_CMD(l, c, x): the test, !strncasecmp(l, c, strlen(c))
MATCH_CMD(l, c) ==
    /\ Len(l) >= Len(c)
    /\ \A i \in 1..Len(c) : tolower(l[i]) = tolower(c[i])

\* MATCH_CMD(l, c, x): the x it sets, (l) + strlen(c)
After(l, c) == SubSeq(l, Len(c) + 1, Len(l))

\* strip_line(), first loop: trim leading whitespace
SkipBlanks(s) ==
    LET stops == {i \in 1..Len(s) : ~isblank(s[i])}
    IN  IF stops = {} THEN <<>>
        ELSE SubSeq(s, CHOOSE i \in stops : \A j \in 1..(i - 1) : isblank(s[j]), Len(s))

\* strip_line(), second loop: cut at the first '#'
UptoHash(s) ==
    LET hashes == {i \in 1..Len(s) : s[i] = 35}
    IN  IF hashes = {} THEN s
        ELSE SubSeq(s, 1, (CHOOSE i \in hashes : \A j \in 1..(i - 1) : s[j] # 35) - 1)

\* static char *strip_line(char *line): the string it returns
strip_line(s) == UptoHash(SkipBlanks(s))

\* strip_line(x) writes its terminator into the caller's buffer: the line
\* buffer l after strip_line(x), x pointing Len(c) characters into l
Stripped(l, c) ==
    LET x    == After(l, c)
        lead == Len(x) - Len(SkipBlanks(x))
    IN  SubSeq(l, 1, Len(c) + lead + Len(strip_line(x)))

\* The decimal value of a string of digits
RECURSIVE DigitsValue(_)
DigitsValue(s) ==
    IF s = <<>> THEN 0 ELSE 10 * DigitsValue(SubSeq(s, 1, Len(s) - 1)) + (s[Len(s)] - 48)

RECURSIVE SkipSpace(_)
SkipSpace(s) == IF s # <<>> /\ isspace(s[1]) THEN SkipSpace(Tail(s)) ELSE s

\* strtonum(numstr, minval, maxval, &err): [val, err]. strtoll() skips white
\* space, takes a sign and digits; anything left over, or no digits, is invalid
strtonum(numstr, minval, maxval) ==
    LET s1     == SkipSpace(numstr)
        signed == s1 # <<>> /\ (s1[1] = 43 \/ s1[1] = 45)
        neg    == s1 # <<>> /\ s1[1] = 45
        ds     == IF signed THEN Tail(s1) ELSE s1
        ok     == ds # <<>> /\ \A i \in 1..Len(ds) : isdigit(ds[i])
        ll     == IF neg THEN 0 - DigitsValue(ds) ELSE DigitsValue(ds)
    IN  IF ~ok THEN [val |-> 0, err |-> "invalid"]
        ELSE IF ll < minval THEN [val |-> 0, err |-> "too small"]
        ELSE IF ll > maxval THEN [val |-> 0, err |-> "too large"]
        ELSE [val |-> ll, err |-> "none"]

\* strcmp(a, b) < 0
RECURSIVE StrLess(_, _)
StrLess(a, b) ==
    IF b = <<>> THEN FALSE
    ELSE IF a = <<>> THEN TRUE
    ELSE IF a[1] # b[1] THEN a[1] < b[1]
    ELSE StrLess(Tail(a), Tail(b))

\* scandir(dir, &e, NULL, alphasort): the names, sorted
RECURSIVE alphasort(_)
alphasort(S) ==
    IF S = {} THEN <<>>
    ELSE LET m == CHOOSE x \in S : \A y \in S : x = y \/ StrLess(x, y)
         IN  <<m>> \o alphasort(S \ {m})

\* No call of parse_runlevels is under way
RlIdle ==
    /\ runlevels = <<>>
    /\ bitmask = 0

\* The configuration globals of finit.c as they are before any file is read,
\* with the registries of svc.c and tty.c empty
cf0 ==
    [cfglevel |-> RUNLEVEL, username |-> NULL, hostname |-> NULL,
     network |-> NULL, runparts |-> NULL, sdown |-> NULL, console |-> NULL,
     ttys |-> <<>>, svcs |-> <<>>, ran |-> <<>>]

----------------------------------------------------------------------------
(* Part I: the bootstrap sequencer                                         *)

\* The levels the configuration can leave in cfglevel
CfgLevels == {1, 2, 3, 4, 5, 7, 8, 9}

\* schedule_work(w): insert by due time, behind the items due no later
RECURSIVE InsertByDue(_, _)
InsertByDue(q, item) ==
    IF q = <<>> THEN <<item>>
    ELSE IF q[1].due <= item.due THEN <<q[1]>> \o InsertByDue(Tail(q), item)
    ELSE <<item>> \o q

schedule_work(q, cb, delay, clock) ==
    InsertByDue(q, [cb |-> cb, delay |-> delay, due |-> clock + delay])

\* A call to an external collaborator, logged with the value of the global
\* bootstrap at the time of the call
Call(log, flag, fn, arg) ==
    Append(log, [fn |-> fn, arg |-> arg, bootstrap |-> flag])

\* The event loop fires the earliest pending item
Fires(cb) == wq # <<>> /\ wq[1].cb = cb

\* The parser is not running
ConfIdle ==
    /\ fs = <<>>
    /\ dents = {}
    /\ pc = "idle"
    /\ stack = <<>>
    /\ result = 0
    /\ included = <<>>
    /\ e = <<>>
    /\ idx = 0
    /\ loaded = <<>>

\* The state main() would leave with the delays of its two work items swapped
SeqInit_swapped ==
    /\ bootstrap = 1
    /\ cnt = CNT_INIT
    /\ rescue \in {0, 1}
    /\ runparts_dir \in BOOLEAN
    /\ rc_local \in BOOLEAN
    /\ now = 0
    /\ wq = schedule_work(schedule_work(<<>>, "crank_worker", BOOTSTRAP_DELAY, 0),
                          "bootstrap_worker", CRANK_DELAY, 0)
    /\ calls = <<>>
    /\ polls = <<>>
    /\ \E lvl \in CfgLevels : cf = [cf0 EXCEPT !.cfglevel = lvl]
    /\ ConfIdle
    /\ RlIdle

\* The state main() leaves when it enters uev_run()
SeqInit ==
    /\ bootstrap = 1
    /\ cnt = CNT_INIT
    /\ rescue \in {0, 1}
    /\ runparts_dir \in BOOLEAN
    /\ rc_local \in BOOLEAN
    /\ now = 0
    /\ wq = schedule_work(schedule_work(<<>>, "crank_worker", CRANK_DELAY, 0),
                          "bootstrap_worker", BOOTSTRAP_DELAY, 0)
    /\ calls = <<>>
    /\ polls = <<>>
    /\ \E lvl \in CfgLevels : cf = [cf0 EXCEPT !.cfglevel = lvl]
    /\ ConfIdle
    /\ RlIdle

\* static void crank_worker(void *unused)
crank_worker ==
    /\ Fires("crank_worker")
    /\ now' = wq[1].due
    /\ wq' = Tail(wq)
    /\ calls' = Call(Call(calls, bootstrap, "sm_init", "sm"),
                     bootstrap, "sm_step", "sm")
    /\ UNCHANGED <<bootstrap, cnt, rescue, runparts_dir, rc_local, polls>>
    /\ UNCHANGED confvars
    /\ UNCHANGED rlvars

\* The tail of bootstrap_worker without the runlevel-change request
Proceed_norequest(log, flag) ==
    IF runparts_dir /\ rescue = 0
    THEN Call(log, flag, "run_parts", "runparts") ELSE log

\* The tail of bootstrap_worker, from the log message on: schedule finalize,
\* run the startup scripts, request the runlevel change
Proceed(log, flag) ==
    LET l1 == IF runparts_dir /\ rescue = 0
              THEN Call(log, flag, "run_parts", "runparts") ELSE log
    IN  Call(l1, flag, "service_runlevel", cf.cfglevel)

\* bootstrap_worker with the countdown left out of the retry condition
bootstrap_worker_nocount ==
    /\ Fires("bootstrap_worker")
    /\ now' = wq[1].due
    /\ \E completed \in BOOLEAN :
         LET stepped == Call(calls, bootstrap, "service_step_all", "SVC_TYPE_ANY")
             c1      == cnt - 1
             again   == ~completed
         IN  /\ cnt' = c1
             /\ IF again
                THEN /\ wq' = schedule_work(Tail(wq), "bootstrap_worker",
                                            wq[1].delay, wq[1].due)
                     /\ calls' = stepped
                     /\ polls' = Append(polls, [asked |-> TRUE, completed |-> completed,
                                                again |-> TRUE, said |-> "waiting"])
                ELSE /\ wq' = schedule_work(Tail(wq), "finalize", FINAL_DELAY, wq[1].due)
                     /\ calls' = Proceed(stepped, bootstrap)
                     /\ polls' = Append(polls,
                                   [asked |-> TRUE, completed |-> completed,
                                    again |-> FALSE,
                                    said |-> IF c1 > 0 THEN "completed" ELSE "timeout"])
    /\ UNCHANGED <<bootstrap, rescue, runparts_dir, rc_local>>
    /\ UNCHANGED confvars
    /\ UNCHANGED rlvars

\* bootstrap_worker with the completion predicate inverted
bootstrap_worker_inverted ==
    /\ Fires("bootstrap_worker")
    /\ now' = wq[1].due
    /\ \E completed \in BOOLEAN :
         LET stepped == Call(calls, bootstrap, "service_step_all", "SVC_TYPE_ANY")
             armed   == cnt > 0
             c1      == cnt - 1
             asked   == armed
             again   == armed /\ completed
         IN  /\ cnt' = c1
             /\ IF again
                THEN /\ wq' = schedule_work(Tail(wq), "bootstrap_worker",
                                            wq[1].delay, wq[1].due)
                     /\ calls' = stepped
                     /\ polls' = Append(polls, [asked |-> asked, completed |-> completed,
                                                again |-> TRUE, said |-> "waiting"])
                ELSE /\ wq' = schedule_work(Tail(wq), "finalize", FINAL_DELAY, wq[1].due)
                     /\ calls' = Proceed(stepped, bootstrap)
                     /\ polls' = Append(polls,
                                   [asked |-> asked,
                                    completed |-> IF asked THEN completed ELSE FALSE,
                                    again |-> FALSE,
                                    said |-> IF c1 > 0 THEN "completed" ELSE "timeout"])
    /\ UNCHANGED <<bootstrap, rescue, runparts_dir, rc_local>>
    /\ UNCHANGED confvars
    /\ UNCHANGED rlvars

\* static void bootstrap_worker(void *work)
bootstrap_worker ==
    /\ Fires("bootstrap_worker")
    /\ now' = wq[1].due
    /\ \E completed \in BOOLEAN :      \* what service_completed() would answer
         LET stepped == Call(calls, bootstrap, "service_step_all", "SVC_TYPE_ANY")
             armed   == cnt > 0        \* cnt-- > 0
             c1      == cnt - 1
             asked   == armed          \* && evaluates its right side only then
             again   == armed /\ ~completed
         IN  /\ cnt' = c1
             /\ IF again
                THEN /\ wq' = schedule_work(Tail(wq), "bootstrap_worker",
                                            wq[1].delay, wq[1].due)
                     /\ calls' = stepped
                     /\ polls' = Append(polls, [asked |-> asked, completed |-> completed,
                                                again |-> TRUE, said |-> "waiting"])
                ELSE /\ wq' = schedule_work(Tail(wq), "finalize", FINAL_DELAY, wq[1].due)
                     /\ calls' = Proceed(stepped, bootstrap)
                     /\ polls' = Append(polls,
                                   [asked |-> asked,
                                    completed |-> IF asked THEN completed ELSE FALSE,
                                    again |-> FALSE,
                                    said |-> IF c1 > 0 THEN "completed" ELSE "timeout"])
    /\ UNCHANGED <<bootstrap, rescue, runparts_dir, rc_local>>
    /\ UNCHANGED confvars
    /\ UNCHANGED rlvars

\* finalize without the assignment bootstrap = 0
finalize_noflip ==
    /\ Fires("finalize")
    /\ now' = wq[1].due
    /\ wq' = Tail(wq)
    /\ LET l1 == Call(calls, bootstrap, "svc_prune_bootstrap", "")
           l2 == Call(l1, bootstrap, "plugin_run_hooks", "HOOK_SVC_UP")
           l3 == Call(l2, bootstrap, "service_step_all", "SVC_TYPE_ANY")
           l4 == IF rc_local /\ rescue = 0
                 THEN Call(l3, bootstrap, "run_interactive", "FINIT_RC_LOCAL") ELSE l3
           l5 == Call(l4, bootstrap, "plugin_run_hooks", "HOOK_SYSTEM_UP")
           l6 == Call(l5, bootstrap, "service_step_all", "SVC_TYPE_ANY")
           l7 == Call(l6, bootstrap, "enable_progress", 0)
           l8 == Call(l7, bootstrap, "service_step_all", "SVC_TYPE_RESPAWN")
       IN  /\ bootstrap' = bootstrap
           /\ calls' = l8
    /\ UNCHANGED <<cnt, rescue, runparts_dir, rc_local, polls>>
    /\ UNCHANGED confvars
    /\ UNCHANGED rlvars

\* finalize with its last two statements swapped
finalize_respawn_first ==
    /\ Fires("finalize")
    /\ now' = wq[1].due
    /\ wq' = Tail(wq)
    /\ LET l1 == Call(calls, bootstrap, "svc_prune_bootstrap", "")
           l2 == Call(l1, bootstrap, "plugin_run_hooks", "HOOK_SVC_UP")
           l3 == Call(l2, bootstrap, "service_step_all", "SVC_TYPE_ANY")
           l4 == IF rc_local /\ rescue = 0
                 THEN Call(l3, bootstrap, "run_interactive", "FINIT_RC_LOCAL") ELSE l3
           l5 == Call(l4, bootstrap, "plugin_run_hooks", "HOOK_SYSTEM_UP")
           l6 == Call(l5, bootstrap, "service_step_all", "SVC_TYPE_ANY")
           l7 == Call(l6, bootstrap, "enable_progress", 0)
           l8 == Call(l7, bootstrap, "service_step_all", "SVC_TYPE_RESPAWN")
           b  == 0
       IN  /\ bootstrap' = b
           /\ calls' = l8
    /\ UNCHANGED <<cnt, rescue, runparts_dir, rc_local, polls>>
    /\ UNCHANGED confvars
    /\ UNCHANGED rlvars

\* static void finalize(void *unused)
finalize ==
    /\ Fires("finalize")
    /\ now' = wq[1].due
    /\ wq' = Tail(wq)
    /\ LET l1 == Call(calls, bootstrap, "svc_prune_bootstrap", "")
           l2 == Call(l1, bootstrap, "plugin_run_hooks", "HOOK_SVC_UP")
           l3 == Call(l2, bootstrap, "service_step_all", "SVC_TYPE_ANY")
           l4 == IF rc_local /\ rescue = 0
                 THEN Call(l3, bootstrap, "run_interactive", "FINIT_RC_LOCAL") ELSE l3
           l5 == Call(l4, bootstrap, "plugin_run_hooks", "HOOK_SYSTEM_UP")
           l6 == Call(l5, bootstrap, "service_step_all", "SVC_TYPE_ANY")
           l7 == Call(l6, bootstrap, "enable_progress", 0)
           b  == 0
           l8 == Call(l7, b, "service_step_all", "SVC_TYPE_RESPAWN")
       IN  /\ bootstrap' = b
           /\ calls' = l8
    /\ UNCHANGED <<cnt, rescue, runparts_dir, rc_local, polls>>
    /\ UNCHANGED confvars
    /\ UNCHANGED rlvars

----------------------------------------------------------------------------
(* Part II: the configuration parser                                       *)

\* Two keywords without the blank that ends them
kw_tty_noblank == <<116, 116, 121>> (* "tty" *)
kw_run_noblank == <<114, 117, 110>> (* "run" *)

\* The keywords of parse_static, in the order it tries them
kw_check    == <<99, 104, 101, 99, 107, 32>> (* "check " *)
kw_user     == <<117, 115, 101, 114, 32>> (* "user " *)
kw_host     == <<104, 111, 115, 116, 32>> (* "host " *)
kw_module   == <<109, 111, 100, 117, 108, 101, 32>> (* "module " *)
kw_mknod    == <<109, 107, 110, 111, 100, 32>> (* "mknod " *)
kw_network  == <<110, 101, 116, 119, 111, 114, 107, 32>> (* "network " *)
kw_runparts == <<114, 117, 110, 112, 97, 114, 116, 115, 32>> (* "runparts " *)
kw_include  == <<105, 110, 99, 108, 117, 100, 101, 32>> (* "include " *)
kw_startx   == <<115, 116, 97, 114, 116, 120, 32>> (* "startx " *)
kw_shutdown == <<115, 104, 117, 116, 100, 111, 119, 110, 32>> (* "shutdown " *)
kw_runlevel == <<114, 117, 110, 108, 101, 118, 101, 108, 32>> (* "runlevel " *)
kw_console  == <<99, 111, 110, 115, 111, 108, 101, 32>> (* "console " *)
kw_tty      == <<116, 116, 121, 32>> (* "tty " *)
\* The keywords of parse_dynamic
kw_hash     == <<35>> (* "#" *)
kw_service  == <<115, 101, 114, 118, 105, 99, 101, 32>> (* "service " *)
kw_task     == <<116, 97, 115, 107, 32>> (* "task " *)
kw_run      == <<114, 117, 110, 32>> (* "run " *)
kw_inetd    == <<105, 110, 101, 116, 100, 32>> (* "inetd " *)

StaticKeywords ==
    {kw_check, kw_user, kw_host, kw_module, kw_mknod, kw_network, kw_runparts,
     kw_include, kw_startx, kw_shutdown, kw_runlevel, kw_console, kw_tty}

\* fexist(path)
fexist(path) == path \in DOMAIN fs

\* svc_register(type, line, mtime, username): the registry gets one more
\* descriptor
svc_register(c, type, line, mtime, user) ==
    [c EXCEPT !.svcs = Append(@, [type |-> type, line |-> line,
                                  mtime |-> mtime, user |-> user])]

\* tty_register(line) and tty_num()
tty_register(c, line) == [c EXCEPT !.ttys = Append(@, line)]
tty_num(c) == Len(c.ttys)

\* run_interactive(cmd, ...): cmd is the prefix with the argument appended by
\* strlcat(cmd, arg, sizeof(cmd))
run_interactive(c, prefix, arg) == [c EXCEPT !.ran = Append(@, strlcpy(prefix \o arg))]

\* parse_static, the runlevel directive: the level cfglevel is left with
runlevel_noreserve(token) ==
    LET n  == strtonum(token, 1, 9)
        l1 == IF n.err # "none" THEN RUNLEVEL ELSE n.val
    IN  IF l1 < 1 \/ l1 > 9 THEN 2 ELSE l1

parse_runlevel(token) ==
    LET n  == strtonum(token, 1, 9)
        l1 == IF n.err # "none" THEN RUNLEVEL ELSE n.val
    IN  IF l1 < 1 \/ l1 > 9 \/ l1 = 6 THEN 2 ELSE l1

\* parse_static, the include directive: the file handed to parse_conf, or
\* NULL when the directive returns without parsing anything
include_file(c, file) ==
    LET cmd == strlcpy(file)
    IN  IF fexist(cmd) THEN cmd
        ELSE LET cmd2 == PathJoin(rcsd, file)
             IN  IF fexist(cmd2) THEN cmd2 ELSE NULL

\* static void parse_static(char *line): the globals after it, the line buffer
\* after it, and the file its include directive hands to parse_conf, if any
parse_static(c, l) ==
    LET arg(kw) == strip_line(After(l, kw))
        out(c2, kw) == [cf |-> c2, line |-> Stripped(l, kw), inc |-> NULL, asked |-> NULL]
    IN
    IF MATCH_CMD(l, kw_check)
    THEN out(run_interactive(c, <<47, 115, 98, 105, 110, 47, 102, 115, 99, 107, 32, 45, 67, 32, 45, 97, 32>> (* "/sbin/fsck -C -a " *), arg(kw_check)), kw_check)
    ELSE IF MATCH_CMD(l, kw_user)
    THEN out([c EXCEPT !.username = arg(kw_user)], kw_user)
    ELSE IF MATCH_CMD(l, kw_host)
    THEN out([c EXCEPT !.hostname = arg(kw_host)], kw_host)
    ELSE IF MATCH_CMD(l, kw_module)
    THEN out(run_interactive(c, <<47, 115, 98, 105, 110, 47, 109, 111, 100, 112, 114, 111, 98, 101, 32>> (* "/sbin/modprobe " *), arg(kw_module)), kw_module)
    ELSE IF MATCH_CMD(l, kw_mknod)
    THEN out(run_interactive(c, <<47, 98, 105, 110, 47, 109, 107, 110, 111, 100, 32>> (* "/bin/mknod " *), arg(kw_mknod)), kw_mknod)
    ELSE IF MATCH_CMD(l, kw_network)
    THEN out([c EXCEPT !.network = arg(kw_network)], kw_network)
    ELSE IF MATCH_CMD(l, kw_runparts)
    THEN out([c EXCEPT !.runparts = arg(kw_runparts)], kw_runparts)
    ELSE IF MATCH_CMD(l, kw_include)
    THEN [cf |-> c, line |-> Stripped(l, kw_include),
          inc |-> include_file(c, arg(kw_include)), asked |-> arg(kw_include)]
    ELSE IF MATCH_CMD(l, kw_startx)
    THEN out(svc_register(c, "SVC_TYPE_SERVICE", arg(kw_startx), 0, c.username), kw_startx)
    ELSE IF MATCH_CMD(l, kw_shutdown)
    THEN out([c EXCEPT !.sdown = arg(kw_shutdown)], kw_shutdown)
    ELSE IF MATCH_CMD(l, kw_runlevel)
    THEN out([c EXCEPT !.cfglevel = parse_runlevel(arg(kw_runlevel))], kw_runlevel)
    ELSE IF MATCH_CMD(l, kw_console)
    THEN out([c EXCEPT !.console = arg(kw_console)], kw_console)
    ELSE IF MATCH_CMD(l, kw_tty)
    THEN out(tty_register(c, arg(kw_tty)), kw_tty)
    ELSE [cf |-> c, line |-> l, inc |-> NULL, asked |-> NULL]

\* static void parse_dynamic(char *line, time_t mtime), built with inetd support
parse_dynamic(c, l, mtime) ==
    IF MATCH_CMD(l, kw_hash) THEN c
    ELSE IF MATCH_CMD(l, kw_service)
    THEN svc_register(c, "SVC_TYPE_SERVICE", After(l, kw_service), mtime, NULL)
    ELSE IF MATCH_CMD(l, kw_task)
    THEN svc_register(c, "SVC_TYPE_TASK", After(l, kw_task), mtime, NULL)
    ELSE IF MATCH_CMD(l, kw_run)
    THEN svc_register(c, "SVC_TYPE_RUN", After(l, kw_run), mtime, NULL)
    ELSE IF MATCH_CMD(l, kw_inetd)
    THEN svc_register(c, "SVC_TYPE_INETD", After(l, kw_inetd), mtime, NULL)
    ELSE c

\* The buffers fgets(line, sizeof(line), fp) and chomp() hand to the loop
\* body. fgets stops behind a newline or when LINE_SIZE - 1 characters are
\* read, whichever comes first, and the next call reads on from there: a line
\* of the file is handed over in pieces of LINE_SIZE - 1 characters, the last
\* piece being what is left before the newline (nothing, if the line fills
\* the pieces before it exactly)
RECURSIVE fgets_chunks(_)
fgets_chunks(l) ==
    IF Len(l) < LINE_SIZE - 1 THEN <<l>>
    ELSE <<SubSeq(l, 1, LINE_SIZE - 1)>> \o fgets_chunks(SubSeq(l, LINE_SIZE, Len(l)))

RECURSIVE fgets_all(_)
fgets_all(lines) ==
    IF lines = <<>> THEN <<>> ELSE fgets_chunks(lines[1]) \o fgets_all(Tail(lines))

fgets_lines(file) == fgets_all(fs[file].content)

\* The loop of parse_conf_dynamic with every line offered to the static
\* handler as well
RECURSIVE conf_dynamic_static(_, _, _)
conf_dynamic_static(c, lines, mtime) ==
    IF lines = <<>> THEN c
    ELSE LET s == parse_static(c, lines[1])
         IN  conf_dynamic_static(parse_dynamic(s.cf, s.line, mtime), Tail(lines), mtime)

\* static int parse_conf_dynamic(char *file, time_t mtime): its loop over the
\* lines read
RECURSIVE conf_dynamic_lines(_, _, _)
conf_dynamic_lines(c, lines, mtime) ==
    IF lines = <<>> THEN c
    ELSE conf_dynamic_lines(parse_dynamic(c, lines[1], mtime), Tail(lines), mtime)

\* parse_conf_dynamic that registers with the time 0, as parse_conf does
parse_conf_dynamic_nomtime(c, file, mtime) ==
    IF ~fexist(file) THEN c
    ELSE conf_dynamic_lines(c, fgets_lines(file), 0)

\* parse_conf_dynamic that offers every line to the static handler as well
parse_conf_dynamic_static(c, file, mtime) ==
    IF ~fexist(file) THEN c
    ELSE conf_dynamic_static(c, fgets_lines(file), mtime)

parse_conf_dynamic(c, file, mtime) ==
    IF ~fexist(file) THEN c
    ELSE conf_dynamic_lines(c, fgets_lines(file), mtime)

----------------------------------------------------------------------------
(* parse_finit_conf(FINIT_CONF): one action per piece of work between two   *)
(* reads of a file                                                         *)

\* int parse_finit_conf(char *file), up to the first read: the defaults are
\* set and parse_conf() opens the root file, or fails to
parse_finit_conf ==
    /\ pc = "conf_start"
    /\ cf' = [cf EXCEPT !.username = DEFUSER, !.hostname = DEFHOST]
    /\ IF fexist(FINIT_CONF)
       THEN /\ stack' = <<[file |-> FINIT_CONF, pos |-> 0, line |-> <<>>]>>
            /\ result' = 0
       ELSE /\ stack' = <<>>
            /\ result' = 1
    /\ pc' = "conf_loop"
    /\ UNCHANGED <<fs, dents, included, e, idx, loaded>>
    /\ UNCHANGED seqvars
    /\ UNCHANGED rlvars

\* The top call of parse_conf and what it reads next
Top == stack[Len(stack)]
AtEof == Top.pos = Len(fgets_lines(Top.file))
NextLine == fgets_lines(Top.file)[Top.pos + 1]

\* The loop body of parse_conf with an include that finds no file treated as
\* the end of the including file
parse_conf_line_abort ==
    /\ pc = "conf_loop"
    /\ stack # <<>>
    /\ ~AtEof
    /\ LET s    == parse_static(cf, NextLine)
           here == [Top EXCEPT !.pos = @ + 1, !.line = s.line]
           rest == SubSeq(stack, 1, Len(stack) - 1)
       IN  IF s.asked # NULL
           THEN /\ included' = Append(included, [path |-> s.asked, file |-> s.inc,
                                                 runparts |-> cf.runparts])
                /\ IF s.inc # NULL
                   THEN /\ stack' = rest \o <<here, [file |-> s.inc, pos |-> 0, line |-> <<>>]>>
                        /\ cf' = s.cf
                   ELSE /\ stack' = rest \o <<[here EXCEPT !.pos = Len(fgets_lines(Top.file))]>>
                        /\ cf' = s.cf
           ELSE /\ included' = included
                /\ stack' = rest \o <<here>>
                /\ cf' = parse_dynamic(s.cf, s.line, 0)
    /\ UNCHANGED <<fs, dents, pc, result, e, idx, loaded>>
    /\ UNCHANGED seqvars
    /\ UNCHANGED rlvars

\* static int parse_conf(char *file), one turn of its loop: a line is read and
\* offered to parse_static and then to parse_dynamic; an include directive
\* that finds its file enters parse_conf for it before parse_dynamic is reached
parse_conf_line ==
    /\ pc = "conf_loop"
    /\ stack # <<>>
    /\ ~AtEof
    /\ LET s    == parse_static(cf, NextLine)
           here == [Top EXCEPT !.pos = @ + 1, !.line = s.line]
           rest == SubSeq(stack, 1, Len(stack) - 1)
       IN  IF s.asked # NULL
           THEN /\ included' = Append(included, [path |-> s.asked, file |-> s.inc,
                                                 runparts |-> cf.runparts])
                /\ IF s.inc # NULL
                   THEN /\ stack' = rest \o <<here, [file |-> s.inc, pos |-> 0, line |-> <<>>]>>
                        /\ cf' = s.cf
                   ELSE /\ stack' = rest \o <<here>>
                        /\ cf' = parse_dynamic(s.cf, s.line, 0)
           ELSE /\ included' = included
                /\ stack' = rest \o <<here>>
                /\ cf' = parse_dynamic(s.cf, s.line, 0)
    /\ UNCHANGED <<fs, dents, pc, result, e, idx, loaded>>
    /\ UNCHANGED seqvars
    /\ UNCHANGED rlvars

\* parse_conf at the end of an included file: fclose, return 0 into the
\* include directive of the caller, which returns, and the caller's loop body
\* goes on to parse_dynamic(line, 0)
parse_conf_return ==
    /\ pc = "conf_loop"
    /\ Len(stack) > 1
    /\ AtEof
    /\ stack' = SubSeq(stack, 1, Len(stack) - 1)
    /\ cf' = parse_dynamic(cf, stack[Len(stack) - 1].line, 0)
    /\ UNCHANGED <<fs, dents, pc, result, included, e, idx, loaded>>
    /\ UNCHANGED seqvars
    /\ UNCHANGED rlvars

\* The end of parse_finit_conf with the fallback shell as the only fallback
parse_finit_conf_tail_noconsole ==
    /\ pc = "conf_loop"
    /\ \/ stack = <<>>
       \/ Len(stack) = 1 /\ AtEof
    /\ stack' = <<>>
    /\ cf' = IF tty_num(cf) = 0 THEN tty_register(cf, FALLBACK_SHELL) ELSE cf
    /\ pc' = "conf_done"
    /\ UNCHANGED <<fs, dents, result, included, e, idx, loaded>>
    /\ UNCHANGED seqvars
    /\ UNCHANGED rlvars

\* parse_finit_conf after parse_conf(file) has returned: the root file is at
\* its end, or was never opened; a TTY is registered if there is none
parse_finit_conf_tail ==
    /\ pc = "conf_loop"
    /\ \/ stack = <<>>
       \/ Len(stack) = 1 /\ AtEof
    /\ stack' = <<>>
    /\ cf' = IF tty_num(cf) = 0
             THEN tty_register(cf, IF cf.console # NULL THEN cf.console ELSE FALLBACK_SHELL)
             ELSE cf
    /\ pc' = "conf_done"
    /\ UNCHANGED <<fs, dents, result, included, e, idx, loaded>>
    /\ UNCHANGED seqvars
    /\ UNCHANGED rlvars

----------------------------------------------------------------------------
(* conf.c: parse_runlevels                                                 *)

\* Bit i of a mask
Bit(mask, i) == (mask \div (2 ^ i)) % 2

SETBIT(mask, i) == IF Bit(mask, i) = 1 THEN mask ELSE mask + 2 ^ i

CLRBIT(mask, i) == IF Bit(mask, i) = 1 THEN mask - 2 ^ i ELSE mask

\* The text scanned when parse_runlevels is given none, with one level more
rl_default_2345 == <<91, 50, 51, 52, 53, 93>> (* "[2345]" *)

\* if (!runlevels) runlevels = "[234]";
rl_default == <<91, 50, 51, 52, 93>> (* "[234]" *)

\* A mask of every bit from 0 to 9
rl_seed_all == 1022 + 1

\* bitmask = 0x3FE;
rl_seed == 1022

\* The level character, with only the lower-case s taken for 0
rl_level_lower(lvl) == IF lvl = 115 THEN 48 ELSE lvl

\* if ('s' == lvl || 'S' == lvl) lvl = '0';
rl_level(lvl) == IF lvl = 115 \/ lvl = 83 THEN 48 ELSE lvl

\* The loop of parse_runlevels: i is the index of the next character read,
\* the terminating NUL is read behind the last one
RECURSIVE rl_scan(_, _, _, _)
rl_scan(s, i, not, mask) ==
    LET lvl   == IF i <= Len(s) THEN s[i] ELSE 0
        level == rl_level(lvl) - 48
    IN  IF lvl = 93 \/ lvl = 0 THEN mask
        ELSE IF lvl = 33 THEN rl_scan(s, i + 1, TRUE, rl_seed)
        ELSE IF level > 9 \/ level < 0 THEN rl_scan(s, i + 1, not, mask)
        ELSE IF not THEN rl_scan(s, i + 1, not, CLRBIT(mask, level))
        ELSE rl_scan(s, i + 1, not, SETBIT(mask, level))

\* The scan starts at runlevels[1], the second character
parse_runlevels(text) ==
    rl_scan(IF text = NULL THEN rl_default ELSE text, 2, FALSE, 0)

\* A call of parse_runlevels and its return
parse_runlevels_call ==
    /\ pc = "rl_call"
    /\ bitmask' = parse_runlevels(runlevels)
    /\ pc' = "rl_done"
    /\ UNCHANGED <<runlevels, cf, fs, dents, stack, result, included, e, idx,
                   loaded>>
    /\ UNCHANGED seqvars

----------------------------------------------------------------------------
(* parse_finit_d(rcsd): one action per entry of the directory              *)

\* strcmp(&path[strlen(path) - 5], ".conf") == 0. A path shorter than five
\* characters holds its '/' among the characters compared and so differs.
EndsConf(path) ==
    /\ Len(path) >= 5
    /\ SubSeq(path, Len(path) - 4, Len(path)) = <<46, 99, 111, 110, 102>> (* ".conf" *)

\* The tests of the loop body of parse_finit_d, with S_ISEXEC left out
d_accepts_exec(path) ==
    /\ fexist(path)
    /\ ~(fs[path].kind = "dir")
    /\ EndsConf(path)

\* The tests of the loop body of parse_finit_d: stat() succeeds, the entry is
\* neither executable nor a directory, the path ends in ".conf"
d_accepts(path) ==
    /\ fexist(path)
    /\ ~(fs[path].exec \/ fs[path].kind = "dir")
    /\ EndsConf(path)

\* int parse_finit_d(char *dir), up to its loop: scandir() sorts the entries,
\* or fails
parse_finit_d ==
    /\ pc = "dir_start"
    /\ IF fexist(rcsd) /\ fs[rcsd].kind = "dir"
       THEN /\ e' = alphasort(dents)
            /\ idx' = 0
            /\ pc' = "dir_loop"
            /\ result' = result
       ELSE /\ e' = <<>>
            /\ idx' = 0
            /\ pc' = "dir_done"
            /\ result' = -1
    /\ UNCHANGED <<cf, fs, dents, stack, included, loaded>>
    /\ UNCHANGED seqvars
    /\ UNCHANGED rlvars

\* parse_finit_d, one turn of its loop
parse_finit_d_entry ==
    /\ pc = "dir_loop"
    /\ idx < Len(e)
    /\ LET name == e[idx + 1]
           path == PathJoin(rcsd, name)
       IN  IF d_accepts(path)
           THEN /\ cf' = parse_conf_dynamic(cf, path, fs[path].mtime)
                /\ loaded' = Append(loaded, [name |-> name, path |-> path,
                                             mtime |-> fs[path].mtime])
           ELSE /\ cf' = cf
                /\ loaded' = loaded
    /\ idx' = idx + 1
    /\ UNCHANGED <<fs, dents, pc, stack, result, included, e>>
    /\ UNCHANGED seqvars
    /\ UNCHANGED rlvars

\* parse_finit_d after its loop: the entries are freed, 0 is returned
parse_finit_d_return ==
    /\ pc = "dir_loop"
    /\ idx = Len(e)
    /\ pc' = "dir_done"
    /\ result' = 0
    /\ UNCHANGED <<cf, fs, dents, stack, included, e, idx, loaded>>
    /\ UNCHANGED seqvars
    /\ UNCHANGED rlvars

----------------------------------------------------------------------------
(* The files the parser is run on                                          *)

\* A runparts directory other than rcsd, and an included file in the three
\* places it can be looked for
RunpartsDir == <<47, 114>> (* "/r" *)
IncGiven    == <<102, 46, 99, 111, 110, 102>> (* "f.conf" *)
IncRcsd     == PathJoin(rcsd, IncGiven)
IncRunparts == PathJoin(RunpartsDir, IncGiven)

IncContent(p) ==
    IF p = IncGiven THEN << <<104, 111, 115, 116, 32, 103>> (* "host g" *), <<116, 97, 115, 107, 32, 47, 103>> (* "task /g" *) >>
    ELSE IF p = IncRcsd THEN << <<104, 111, 115, 116, 32, 100>> (* "host d" *), <<116, 97, 115, 107, 32, 47, 100>> (* "task /d" *) >>
    ELSE << <<104, 111, 115, 116, 32, 114>> (* "host r" *), <<116, 97, 115, 107, 32, 47, 114>> (* "task /r" *) >>

\* The lines longer root files are built from
CoreLines ==
    { <<114, 117, 110, 112, 97, 114, 116, 115, 32, 47, 114>> (* "runparts /r" *), <<105, 110, 99, 108, 117, 100, 101, 32, 102, 46, 99, 111, 110, 102>> (* "include f.conf" *), <<104, 111, 115, 116, 32, 104>> (* "host h" *), <<115, 101, 114, 118, 105, 99, 101, 32, 47, 115>> (* "service /s" *),
      <<114, 117, 110, 108, 101, 118, 101, 108, 32, 51>> (* "runlevel 3" *), <<116, 116, 121, 32, 47, 100, 101, 118, 47, 116, 116, 121, 49>> (* "tty /dev/tty1" *), <<99, 111, 110, 115, 111, 108, 101, 32, 47, 100, 101, 118, 47, 99>> (* "console /dev/c" *) }

\* The runlevel directive with a range of tokens
RunlevelLines ==
    { <<114, 117, 110, 108, 101, 118, 101, 108, 32, 48>> (* "runlevel 0" *), <<114, 117, 110, 108, 101, 118, 101, 108, 32, 49>> (* "runlevel 1" *), <<114, 117, 110, 108, 101, 118, 101, 108, 32, 50>> (* "runlevel 2" *), <<114, 117, 110, 108, 101, 118, 101, 108, 32, 51>> (* "runlevel 3" *),
      <<114, 117, 110, 108, 101, 118, 101, 108, 32, 52>> (* "runlevel 4" *), <<114, 117, 110, 108, 101, 118, 101, 108, 32, 53>> (* "runlevel 5" *), <<114, 117, 110, 108, 101, 118, 101, 108, 32, 54>> (* "runlevel 6" *), <<114, 117, 110, 108, 101, 118, 101, 108, 32, 55>> (* "runlevel 7" *),
      <<114, 117, 110, 108, 101, 118, 101, 108, 32, 56>> (* "runlevel 8" *), <<114, 117, 110, 108, 101, 118, 101, 108, 32, 57>> (* "runlevel 9" *), <<114, 117, 110, 108, 101, 118, 101, 108, 32, 49, 48>> (* "runlevel 10" *), <<114, 117, 110, 108, 101, 118, 101, 108, 32, 57, 57>> (* "runlevel 99" *),
      <<114, 117, 110, 108, 101, 118, 101, 108, 32, 45, 49>> (* "runlevel -1" *), <<114, 117, 110, 108, 101, 118, 101, 108, 32, 43, 52>> (* "runlevel +4" *), <<114, 117, 110, 108, 101, 118, 101, 108, 32, 48, 52>> (* "runlevel 04" *), <<114, 117, 110, 108, 101, 118, 101, 108, 32, 120>> (* "runlevel x" *),
      <<114, 117, 110, 108, 101, 118, 101, 108, 32, 52, 120>> (* "runlevel 4x" *), <<114, 117, 110, 108, 101, 118, 101, 108, 32>> (* "runlevel " *), <<114, 117, 110, 108, 101, 118, 101, 108, 32, 32, 32, 53>> (* "runlevel   5" *), <<114, 117, 110, 108, 101, 118, 101, 108, 32, 52, 32>> (* "runlevel 4 " *),
      <<114, 117, 110, 108, 101, 118, 101, 108, 32, 55, 35, 99>> (* "runlevel 7#c" *), <<114, 117, 110, 108, 101, 118, 101, 108, 32, 56, 32, 35, 32, 99>> (* "runlevel 8 # c" *), <<82, 117, 110, 76, 101, 118, 101, 108, 32, 57>> (* "RunLevel 9" *), <<114, 117, 110, 108, 101, 118, 101, 108, 32, 83>> (* "runlevel S" *) }

\* One line of every directive, and lines that are none
DirectiveLines ==
    { <<99, 104, 101, 99, 107, 32, 47, 100, 101, 118, 47, 115, 100, 97, 49>> (* "check /dev/sda1" *), <<117, 115, 101, 114, 32, 97, 100, 109, 105, 110>> (* "user admin" *), <<104, 111, 115, 116, 32, 98, 111, 120, 32, 35, 32, 110, 97, 109, 101>> (* "host box # name" *), <<109, 111, 100, 117, 108, 101, 32, 101, 49, 48, 48, 48>> (* "module e1000" *),
      <<109, 107, 110, 111, 100, 32, 47, 100, 101, 118, 47, 110, 117, 108, 108, 32, 99, 32, 49, 32, 51>> (* "mknod /dev/null c 1 3" *), <<110, 101, 116, 119, 111, 114, 107, 32, 47, 101, 116, 99, 47, 110, 101, 116, 46, 115, 104>> (* "network /etc/net.sh" *), <<114, 117, 110, 112, 97, 114, 116, 115, 32, 47, 101, 116, 99, 47, 102, 105, 110, 105, 116, 46, 100>> (* "runparts /etc/finit.d" *),
      <<105, 110, 99, 108, 117, 100, 101, 32, 110, 111, 102, 105, 108, 101, 46, 99, 111, 110, 102>> (* "include nofile.conf" *), <<115, 116, 97, 114, 116, 120, 32, 47, 117, 115, 114, 47, 98, 105, 110, 47, 120, 105, 110, 105, 116>> (* "startx /usr/bin/xinit" *), <<115, 104, 117, 116, 100, 111, 119, 110, 32, 47, 115, 98, 105, 110, 47, 111, 102, 102>> (* "shutdown /sbin/off" *),
      <<99, 111, 110, 115, 111, 108, 101, 32, 47, 100, 101, 118, 47, 116, 116, 121, 83, 48>> (* "console /dev/ttyS0" *), <<116, 116, 121, 32, 47, 100, 101, 118, 47, 116, 116, 121, 83, 49>> (* "tty /dev/ttyS1" *),
      <<115, 101, 114, 118, 105, 99, 101, 32, 91, 50, 51, 52, 53, 93, 32, 47, 115, 98, 105, 110, 47, 97, 32, 45, 110>> (* "service [2345] /sbin/a -n" *), <<83, 69, 82, 86, 73, 67, 69, 32, 47, 98, 105, 110, 47, 116, 114, 117, 101>> (* "SERVICE /bin/true" *), <<116, 97, 115, 107, 32, 47, 116>> (* "task /t" *),
      <<114, 117, 110, 32, 91, 83, 93, 32, 47, 114>> (* "run [S] /r" *), <<105, 110, 101, 116, 100, 32, 115, 115, 104, 47, 116, 99, 112>> (* "inetd ssh/tcp" *), <<35, 32, 99, 111, 109, 109, 101, 110, 116>> (* "# comment" *), <<32, 32, 35, 32, 99, 111, 109, 109, 101, 110, 116>> (* "  # comment" *),
      <<>> (* "" *), <<35, 115, 101, 114, 118, 105, 99, 101, 32, 47, 120>> (* "#service /x" *), <<32, 32, 115, 101, 114, 118, 105, 99, 101, 32, 47, 120>> (* "  service /x" *), <<9, 116, 116, 121, 32, 47, 100, 101, 118, 47, 116, 116, 121, 50>> (* "\ttty /dev/tty2" *),
      <<98, 111, 103, 117, 115, 32, 108, 105, 110, 101>> (* "bogus line" *), <<114, 117, 110, 115, 32, 47, 120>> (* "runs /x" *), <<72, 111, 115, 116, 32, 66, 111, 120>> (* "Host Box" *), <<84, 84, 89, 32, 47, 100, 101, 118, 47, 116, 116, 121, 51>> (* "TTY /dev/tty3" *) }

AllLines == CoreLines \cup RunlevelLines \cup DirectiveLines

\* The text of a line for each directive: its keyword, and an argument that
\* makes the directive change something
DirectiveTexts ==
    { << <<99, 104, 101, 99, 107, 32>> (* "check " *), <<47, 98, 105, 110, 47, 116, 114, 117, 101>> (* "/bin/true" *) >>, << <<117, 115, 101, 114, 32>> (* "user " *), <<47, 98, 105, 110, 47, 116, 114, 117, 101>> (* "/bin/true" *) >>,
      << <<104, 111, 115, 116, 32>> (* "host " *), <<47, 98, 105, 110, 47, 116, 114, 117, 101>> (* "/bin/true" *) >>, << <<109, 111, 100, 117, 108, 101, 32>> (* "module " *), <<47, 98, 105, 110, 47, 116, 114, 117, 101>> (* "/bin/true" *) >>,
      << <<109, 107, 110, 111, 100, 32>> (* "mknod " *), <<47, 98, 105, 110, 47, 116, 114, 117, 101>> (* "/bin/true" *) >>, << <<110, 101, 116, 119, 111, 114, 107, 32>> (* "network " *), <<47, 98, 105, 110, 47, 116, 114, 117, 101>> (* "/bin/true" *) >>,
      << <<114, 117, 110, 112, 97, 114, 116, 115, 32>> (* "runparts " *), <<47, 98, 105, 110, 47, 116, 114, 117, 101>> (* "/bin/true" *) >>, << <<105, 110, 99, 108, 117, 100, 101, 32>> (* "include " *), <<102, 46, 99, 111, 110, 102>> (* "f.conf" *) >>,
      << <<115, 116, 97, 114, 116, 120, 32>> (* "startx " *), <<47, 98, 105, 110, 47, 116, 114, 117, 101>> (* "/bin/true" *) >>, << <<115, 104, 117, 116, 100, 111, 119, 110, 32>> (* "shutdown " *), <<47, 98, 105, 110, 47, 116, 114, 117, 101>> (* "/bin/true" *) >>,
      << <<114, 117, 110, 108, 101, 118, 101, 108, 32>> (* "runlevel " *), <<51>> (* "3" *) >>, << <<99, 111, 110, 115, 111, 108, 101, 32>> (* "console " *), <<47, 98, 105, 110, 47, 116, 114, 117, 101>> (* "/bin/true" *) >>,
      << <<116, 116, 121, 32>> (* "tty " *), <<47, 98, 105, 110, 47, 116, 114, 117, 101>> (* "/bin/true" *) >>, << <<115, 101, 114, 118, 105, 99, 101, 32>> (* "service " *), <<47, 98, 105, 110, 47, 116, 114, 117, 101>> (* "/bin/true" *) >>,
      << <<116, 97, 115, 107, 32>> (* "task " *), <<47, 98, 105, 110, 47, 116, 114, 117, 101>> (* "/bin/true" *) >>, << <<114, 117, 110, 32>> (* "run " *), <<47, 98, 105, 110, 47, 116, 114, 117, 101>> (* "/bin/true" *) >>,
      << <<105, 110, 101, 116, 100, 32>> (* "inetd " *), <<47, 98, 105, 110, 47, 116, 114, 117, 101>> (* "/bin/true" *) >> }

\* The word w with the letters at the indexes in U in upper case
Cased(w, U) ==
    [i \in 1..Len(w) |-> IF i \in U /\ w[i] \in 97..122 THEN w[i] - 32 ELSE w[i]]

\* Every directive with its keyword in every mix of upper and lower case
CaseLines ==
    UNION {{Cased(d[1], U) \o d[2] : U \in SUBSET (1..(Len(d[1]) - 1))} : d \in DirectiveTexts}

\* Every directive behind leading blanks
LeadingBlanks == { <<32>> (* " " *), <<9>> (* "\t" *), <<32, 32>> (* "  " *), <<32, 9>> (* " \t" *) }

IndentedLines == {b \o d[1] \o d[2] : b \in LeadingBlanks, d \in DirectiveTexts}

\* Blank lines, comments, lines that start like a directive and are none,
\* and directives with a comment that reads like another directive
OddLines ==
    { <<32>> (* " " *), <<9>> (* "\t" *), <<32, 32, 32>> (* "   " *), <<35>> (* "#" *), <<9, 35>> (* "\t#" *), <<35, 32, 116, 116, 121, 32, 47, 100, 101, 118, 47, 116, 116, 121, 52>> (* "# tty /dev/tty4" *), <<32, 32, 35, 32, 115, 101, 114, 118, 105, 99, 101, 32, 47, 120>> (* "  # service /x" *),
      <<115, 101, 114, 118, 105, 99>> (* "servic" *), <<115, 101, 114, 118, 105, 99, 101>> (* "service" *), <<115, 101, 114, 118, 105, 99, 101, 115, 32, 47, 120>> (* "services /x" *), <<104, 111, 115, 116, 110, 97, 109, 101, 32, 120>> (* "hostname x" *), <<116, 116, 121, 83, 48, 32, 120>> (* "ttyS0 x" *),
      <<116, 97, 115, 107, 115, 32, 47, 120>> (* "tasks /x" *), <<114, 117, 110, 110, 101, 114, 32, 47, 120>> (* "runner /x" *), <<105, 110, 101, 116, 100>> (* "inetd" *), <<99, 104, 101, 99, 107, 115>> (* "checks" *), <<120, 32, 115, 101, 114, 118, 105, 99, 101, 32, 47, 120>> (* "x service /x" *),
      <<104, 111, 115, 116, 32, 97, 35, 115, 101, 114, 118, 105, 99, 101, 32, 47, 98>> (* "host a#service /b" *), <<116, 116, 121, 32, 47, 100, 101, 118, 47, 116, 32, 35, 32, 116, 97, 115, 107, 32, 47, 120>> (* "tty /dev/t # task /x" *), <<117, 115, 101, 114, 32, 117, 32, 35, 114, 117, 110, 32, 47, 114>> (* "user u #run /r" *),
      <<115, 101, 114, 118, 105, 99, 101, 32, 47, 115, 32, 35, 32, 104, 111, 115, 116, 32, 120>> (* "service /s # host x" *), <<116, 97, 115, 107, 32, 47, 116, 32, 35, 116, 116, 121, 32, 47, 100, 101, 118, 47, 116>> (* "task /t #tty /dev/t" *) }

\* n characters that are no blank and no #
Filler(n) == [i \in 1..n |-> 120]

\* Lines of LINE_SIZE - 1 characters and more: a host line, a comment and a
\* line that is no directive, each followed on the same line by the text of
\* a directive; a line of exactly LINE_SIZE - 1 characters; a line of twice
\* that and more
LongLines ==
    { <<104, 111, 115, 116, 32>> (* "host " *) \o Filler(LINE_SIZE - 6) \o <<115, 101, 114, 118, 105, 99, 101, 32, 47, 120>> (* "service /x" *),
      <<35, 32>> (* "# " *) \o Filler(LINE_SIZE - 3) \o <<116, 97, 115, 107, 32, 47, 116>> (* "task /t" *),
      Filler(LINE_SIZE - 1) \o <<116, 116, 121, 32, 47, 100, 101, 118, 47, 116, 116, 121, 53>> (* "tty /dev/tty5" *),
      <<117, 115, 101, 114, 32>> (* "user " *) \o Filler(LINE_SIZE - 6),
      <<115, 101, 114, 118, 105, 99, 101, 32>> (* "service " *) \o Filler(LINE_SIZE - 10),
      <<115, 101, 114, 118, 105, 99, 101, 32, 47>> (* "service /" *) \o Filler(2 * LINE_SIZE - 11) \o <<114, 117, 110, 32, 47, 114>> (* "run /r" *) }

\* The lines a root file is made of when it has one line only
ProbeLines == CaseLines \cup IndentedLines \cup OddLines \cup LongLines

\* The sequences over S of length at most n
SeqsUpTo(S, n) == UNION {[1..k -> S] : k \in 0..n}

\* The root files: up to MaxLines core lines, or any one line
RootContents == SeqsUpTo(CoreLines, MaxLines) \cup {<<l>> : l \in AllLines}

File(mtime, content) == [kind |-> "file", exec |-> FALSE, mtime |-> mtime, content |-> content]

\* The file system with the root file and the included files X
ConfFs(root, X) ==
    [p \in {FINIT_CONF} \cup X |->
        IF p = FINIT_CONF THEN File(5, root) ELSE File(6, IncContent(p))]

\* The sequencer is not running
SeqIdle ==
    /\ bootstrap = 1
    /\ cnt = CNT_INIT
    /\ rescue = 0
    /\ runparts_dir = FALSE
    /\ rc_local = FALSE
    /\ wq = <<>>
    /\ now = 0
    /\ calls = <<>>
    /\ polls = <<>>

\* The state in which parse_finit_conf(FINIT_CONF) is called
ConfInit ==
    /\ \/ \E root \in RootContents, X \in SUBSET {IncGiven, IncRcsd, IncRunparts} :
             fs = ConfFs(root, X)
       \/ \E l \in ProbeLines, X \in {{}, {IncGiven}} :
             fs = ConfFs(<<l>>, X)
       \/ fs = [p \in {IncRcsd} |-> File(6, IncContent(p))]   \* no root file
    /\ cf = cf0
    /\ dents = {}
    /\ pc = "conf_start"
    /\ stack = <<>>
    /\ result = 0
    /\ included = <<>>
    /\ e = <<>>
    /\ idx = 0
    /\ loaded = <<>>
    /\ SeqIdle
    /\ RlIdle

\* The names a fragment directory is filled from, and what a name can be
DirNames == { <<97, 46, 99, 111, 110, 102>> (* "a.conf" *), <<98, 46, 99, 111, 110, 102>> (* "b.conf" *), <<99, 46, 115, 104>> (* "c.sh" *), <<100, 46, 99, 111, 110, 102>> (* "d.conf" *), <<99, 111, 110, 102>> (* "conf" *), <<66, 46, 99, 111, 110, 102>> (* "B.conf" *) }
DotNames == { <<46>> (* "." *), <<46, 46>> (* ".." *) }
VarName  == <<118, 46, 99, 111, 110, 102>> (* "v.conf" *)
EntryKinds == {"file", "exec", "dir", "nostat"}

FragContent(n) ==
    IF n = <<97, 46, 99, 111, 110, 102>> (* "a.conf" *) THEN << <<115, 101, 114, 118, 105, 99, 101, 32, 47, 97>> (* "service /a" *), <<114, 117, 110, 108, 101, 118, 101, 108, 32, 51>> (* "runlevel 3" *) >>
    ELSE IF n = <<98, 46, 99, 111, 110, 102>> (* "b.conf" *) THEN << <<116, 97, 115, 107, 32, 47, 98>> (* "task /b" *), <<104, 111, 115, 116, 32, 101, 118, 105, 108>> (* "host evil" *) >>
    ELSE IF n = <<99, 46, 115, 104>> (* "c.sh" *) THEN << <<114, 117, 110, 32, 47, 99>> (* "run /c" *) >>
    ELSE IF n = <<100, 46, 99, 111, 110, 102>> (* "d.conf" *) THEN << <<105, 110, 101, 116, 100, 32, 100>> (* "inetd d" *), <<116, 116, 121, 32, 47, 100, 101, 118, 47, 116, 116, 121, 57>> (* "tty /dev/tty9" *) >>
    ELSE IF n = <<99, 111, 110, 102>> (* "conf" *) THEN << <<115, 101, 114, 118, 105, 99, 101, 32, 47, 99, 111, 110, 102>> (* "service /conf" *) >>
    ELSE << <<114, 117, 110, 32, 47, 66>> (* "run /B" *), <<117, 115, 101, 114, 32, 101, 118, 101>> (* "user eve" *), <<105, 110, 99, 108, 117, 100, 101, 32, 102, 46, 99, 111, 110, 102>> (* "include f.conf" *) >>

FragMtime(n) ==
    IF n = <<97, 46, 99, 111, 110, 102>> (* "a.conf" *) THEN 11
    ELSE IF n = <<98, 46, 99, 111, 110, 102>> (* "b.conf" *) THEN 12
    ELSE IF n = <<99, 46, 115, 104>> (* "c.sh" *) THEN 13
    ELSE IF n = <<100, 46, 99, 111, 110, 102>> (* "d.conf" *) THEN 14
    ELSE IF n = <<99, 111, 110, 102>> (* "conf" *) THEN 15
    ELSE 16

\* The file system with the directory rcsd holding the names S, each of the
\* kind given, and the content given for VarName
DirFs(S, kind, var) ==
    LET named(p) == CHOOSE n \in S \cup DotNames : PathJoin(rcsd, n) = p
        there    == {n \in S : kind[n] # "nostat"} \cup DotNames
    IN  [p \in {rcsd, IncRcsd} \cup {PathJoin(rcsd, n) : n \in there} |->
            IF p = rcsd THEN [kind |-> "dir", exec |-> TRUE, mtime |-> 7, content |-> <<>>]
            ELSE IF p = IncRcsd /\ IncGiven \notin S THEN File(6, IncContent(p))
            ELSE LET n == named(p)
                 IN  IF n \in DotNames
                     THEN [kind |-> "dir", exec |-> TRUE, mtime |-> 7, content |-> <<>>]
                     ELSE [kind |-> IF kind[n] = "dir" THEN "dir" ELSE "file",
                           exec |-> kind[n] \in {"exec", "dir"},
                           mtime |-> IF n = VarName THEN 17 ELSE FragMtime(n),
                           content |-> IF kind[n] = "dir" THEN <<>>
                                       ELSE IF n = VarName THEN var
                                       ELSE FragContent(n)]]

\* The configuration globals after parse_finit_conf on an empty root file
cf1 == [cf0 EXCEPT !.username = DEFUSER, !.hostname = DEFHOST,
                   !.ttys = <<FALLBACK_SHELL>>]

\* The state in which parse_finit_d(rcsd) is called
DirInit ==
    /\ \/ \E S \in SUBSET DirNames :
             /\ Cardinality(S) <= MaxEntries
             /\ \E kind \in [S -> EntryKinds] :
                   /\ fs = DirFs(S, kind, <<>>)
                   /\ dents = S \cup DotNames
       \/ \E l \in AllLines \cup LongLines :
             /\ fs = DirFs({VarName}, [n \in {VarName} |-> "file"], <<l>>)
             /\ dents = {VarName} \cup DotNames
       \/ /\ fs = [p \in {FINIT_CONF} |-> File(5, <<>>)]      \* no directory
          /\ dents = {}
    /\ cf = cf1
    /\ pc = "dir_start"
    /\ stack = <<>>
    /\ result = 0
    /\ included = <<>>
    /\ e = <<>>
    /\ idx = 0
    /\ loaded = <<>>
    /\ SeqIdle
    /\ RlIdle


\* The characters runlevel texts are built from: ! 0 2 6 9 S s ] x : /
RlChars == {33, 48, 50, 54, 57, 83, 115, 93, 120, 58, 47}

\* The runlevel texts: an opening bracket and up to MaxBody characters,
\* closed or not, the texts of the manual, and no text at all
RlTexts ==
    {<<91>> \o b : b \in SeqsUpTo(RlChars, MaxBody)}
        \cup { <<91, 50, 51, 52, 93>> (* "[234]" *), <<91, 33, 48, 54, 93>> (* "[!06]" *), <<91, 50, 51, 52, 53, 93>> (* "[2345]" *), <<91, 33, 50, 51, 52, 53, 93>> (* "[!2345]" *), <<91, 49, 50, 51, 52, 53, 55, 56, 57, 93>> (* "[12345789]" *),
               <<91, 48, 49, 50, 51, 52, 53, 54, 55, 56, 57, 93>> (* "[0123456789]" *), <<91, 33, 48, 49, 50, 51, 52, 53, 54, 55, 56, 57, 93>> (* "[!0123456789]" *), <<91, 50, 33, 51, 52, 93>> (* "[2!34]" *), <<91, 33, 51, 33, 52, 93>> (* "[!3!4]" *), NULL }

\* The state in which parse_runlevels is called
MaskInit ==
    /\ runlevels \in RlTexts
    /\ bitmask = 0
    /\ cf = cf0
    /\ fs = <<>>
    /\ dents = {}
    /\ pc = "rl_call"
    /\ stack = <<>>
    /\ result = 0
    /\ included = <<>>
    /\ e = <<>>
    /\ idx = 0
    /\ loaded = <<>>
    /\ SeqIdle
----------------------------------------------------------------------------
(* Specifications                                                          *)

\* uev_run(): the loop fires the pending work items one at a time
Next ==
    \/ crank_worker
    \/ (Len(polls) < MaxTicks /\ bootstrap_worker)
    \/ finalize

Init == SeqInit

Spec == Init /\ [][Next]_vars

\* The event loop keeps running while work is pending
FairSpec == Spec /\ WF_vars(Next)

\* parse_finit_conf(FINIT_CONF), from its call to its return
ConfNext ==
    \/ parse_finit_conf
    \/ parse_conf_line
    \/ parse_conf_return
    \/ parse_finit_conf_tail

ConfSpec == ConfInit /\ [][ConfNext]_vars

\* parse_finit_d(rcsd), from its call to its return
DirNext ==
    \/ parse_finit_d
    \/ parse_finit_d_entry
    \/ parse_finit_d_return

DirSpec == DirInit /\ [][DirNext]_vars

\* parse_runlevels(runlevels), from its call to its return
MaskNext == parse_runlevels_call

MaskSpec == MaskInit /\ [][MaskNext]_vars

\* The configuration is loaded: parse_finit_conf reads the root file, or
\* parse_finit_d reads the fragments
LoadInit == ConfInit \/ DirInit

LoadNext == ConfNext \/ DirNext

LoadSpec == LoadInit /\ [][LoadNext]_vars

----------------------------------------------------------------------------
(* Properties of the bootstrap sequencer                                   *)

\* The runlevel-change request has been issued
Requested == \E i \in 1..Len(calls) : calls[i].fn = "service_runlevel"
\* A work item with this callback is pending
Pending(cb) == \E i \in 1..Len(wq) : wq[i].cb = cb
\* The respawn-class step has been issued
RespawnStepped ==
    \E i \in 1..Len(calls) :
        calls[i].fn = "service_step_all" /\ calls[i].arg = "SVC_TYPE_RESPAWN"
\* No poll so far found the completion predicate true
NeverCompleted == \A i \in 1..Len(polls) : ~(polls[i].asked /\ polls[i].completed)

\* C1: whatever service_completed() answers, bootstrap_worker re-schedules
\* itself on no tick after the 120 of its countdown, keeps polling until then
\* while the predicate stays false, and the finalize step eventually runs, so
\* that bootstrap becomes 0.
C1_TimeoutEndsPolling ==
    /\ [](\A i \in 1..Len(polls) : polls[i].again => i <= CNT_INIT)
    /\ []((NeverCompleted /\ Len(polls) \in 1..CNT_INIT) => polls[Len(polls)].again)
    /\ <>(bootstrap = 0 /\ wq = <<>>)

\* C1 witness: the predicate never became true, the countdown ran out and the
\* finalize step has run
C1_Witness ==
    /\ Len(polls) = CNT_INIT + 1
    /\ NeverCompleted
    /\ bootstrap = 0

\* C2: while every poll so far found the predicate false (within the
\* countdown) the worker is pending again and nothing of the transition has
\* happened; on the tick that first finds it true the worker is not pending
\* any more, finalize is scheduled and the runlevel change is requested.
C2_ProceedsOnFirstTrueTick ==
    LET n == Len(polls) IN
    n > 0 =>
        IF polls[n].asked /\ polls[n].completed
        THEN /\ \A j \in 1..(n - 1) : polls[j].again /\ ~polls[j].completed
             /\ ~polls[n].again
             /\ ~Pending("bootstrap_worker")
             /\ Requested
             /\ Pending("finalize") \/ bootstrap = 0
        ELSE (n <= CNT_INIT) =>
             /\ polls[n].again
             /\ Pending("bootstrap_worker")
             /\ ~Requested
             /\ ~Pending("finalize")
             /\ bootstrap = 1

\* C2 witness: the predicate is first true on the 5th tick and the worker has
\* gone on to the transition on that tick
C2_Witness ==
    /\ Len(polls) = 5
    /\ polls[5].asked /\ polls[5].completed
    /\ \A j \in 1..4 : polls[j].again
    /\ Requested /\ Pending("finalize")

\* C3: the tick that goes on to the transition says "timeout" exactly when it
\* did not find the completion predicate true.
C3_TimeoutIffNotCompleted ==
    \A i \in 1..Len(polls) :
        ~polls[i].again =>
            ((polls[i].said = "timeout") <=> ~(polls[i].asked /\ polls[i].completed))

\* C4: bootstrap is 1 at the start, only the finalize step changes it, the
\* only change is from 1 to 0, and the change does happen.
C4_BootstrapFlipsOnce ==
    /\ bootstrap = 1
    /\ [][bootstrap' # bootstrap =>
            (bootstrap = 1 /\ bootstrap' = 0 /\ Fires("finalize"))]_vars
    /\ <>[](bootstrap = 0)

\* C4 witness: the flag has been flipped
C4_Witness == bootstrap = 0 /\ cnt < CNT_INIT

\* C5: every service_step_all(SVC_TYPE_RESPAWN) is issued with bootstrap
\* already 0, and while bootstrap is 1 none has been issued.
C5_RespawnOnlyAfterBootstrap ==
    /\ \A i \in 1..Len(calls) :
          (calls[i].fn = "service_step_all" /\ calls[i].arg = "SVC_TYPE_RESPAWN")
              => calls[i].bootstrap = 0
    /\ bootstrap = 1 => ~RespawnStepped

\* C5 witness: the respawn-class step has been issued
C5_Witness == RespawnStepped /\ bootstrap = 0

----------------------------------------------------------------------------
(* Properties of the order of the sequencer's steps                        *)

\* The indexes of the calls of fn in the log
CallsOf(fn) == {i \in 1..Len(calls) : calls[i].fn = fn}

\* The finalize step has run: its first call is in the log
Finalized == CallsOf("svc_prune_bootstrap") # {}

\* The index of the first call of the finalize step
FinalizeStart == CHOOSE i \in CallsOf("svc_prune_bootstrap") : TRUE

\* The calls of the log from the i-th on, without the flag each was made under
CallsFrom(i) ==
    [k \in 1..(Len(calls) - i + 1) |-> <<calls[i + k - 1].fn, calls[i + k - 1].arg>>]

\* At every point of the sequence: at most one runlevel-change request, for
\* cfglevel; it is in the log exactly when finalize has been scheduled; and
\* it, like the run of the startup scripts, precedes every call of finalize
RunlevelRequestOrder ==
    /\ Cardinality(CallsOf("service_runlevel")) <= 1
    /\ \A i \in CallsOf("service_runlevel") : calls[i].arg = cf.cfglevel
    /\ (Pending("finalize") \/ Finalized) <=> CallsOf("service_runlevel") # {}
    /\ ~(Pending("finalize") /\ Finalized)
    /\ CallsOf("run_parts") # {} <=>
          (CallsOf("service_runlevel") # {} /\ runparts_dir /\ rescue = 0)
    /\ Finalized =>
          \A i \in CallsOf("service_runlevel") \cup CallsOf("run_parts") :
              i < FinalizeStart

\* C17: service_runlevel(cfglevel) is called exactly once, in the tick of
\* bootstrap_worker that schedules finalize, and that call and the run of the
\* startup scripts come before finalize runs, whether the tick found the
\* work completed or the countdown ran out.
C17_RunlevelRequestedOnceBeforeFinalize ==
    /\ []RunlevelRequestOrder
    /\ <>(Cardinality(CallsOf("service_runlevel")) = 1 /\ Finalized)

\* C17 witness: the countdown ran out, the startup scripts were run, the
\* request was made and finalize has run after it
C17_Witness ==
    /\ polls # <<>>
    /\ polls[Len(polls)].said = "timeout"
    /\ CallsOf("run_parts") # {}
    /\ Cardinality(CallsOf("service_runlevel")) = 1
    /\ Finalized

\* The calls of finalize up to the end of progress output
FinalizeHead ==
    << <<"svc_prune_bootstrap", "">>, <<"plugin_run_hooks", "HOOK_SVC_UP">>,
       <<"service_step_all", "SVC_TYPE_ANY">> >>
    \o (IF rc_local /\ rescue = 0
        THEN << <<"run_interactive", "FINIT_RC_LOCAL">> >> ELSE <<>>)
    \o << <<"plugin_run_hooks", "HOOK_SYSTEM_UP">>,
          <<"service_step_all", "SVC_TYPE_ANY">>, <<"enable_progress", 0>> >>

\* C18 as claimed: finalize makes its calls in the fixed order, ending with
\* the end of progress output, and flips bootstrap after every one of them.
C18_FlipIsLastAction ==
    Finalized =>
        /\ bootstrap = 0
        /\ CallsFrom(FinalizeStart) = FinalizeHead
        /\ \A i \in FinalizeStart..Len(calls) : calls[i].bootstrap = 1

\* C18: finalize prunes, runs the services-up hook, steps, runs the
\* compatibility script if there is one and this is no rescue boot, runs the
\* system-up hook, steps, ends progress output, all with bootstrap still 1,
\* then sets bootstrap to 0 and, as its last action, steps the respawn class
\* with bootstrap 0.
C18_FlipThenRespawn ==
    IF Finalized
    THEN /\ bootstrap = 0
         /\ CallsFrom(FinalizeStart)
               = FinalizeHead \o << <<"service_step_all", "SVC_TYPE_RESPAWN">> >>
         /\ \A i \in FinalizeStart..(Len(calls) - 1) : calls[i].bootstrap = 1
         /\ calls[Len(calls)].bootstrap = 0
    ELSE /\ bootstrap = 1
         /\ CallsOf("enable_progress") = {}

\* C18 witness: finalize has run and has called the compatibility script
C18_Witness ==
    /\ Finalized
    /\ rc_local /\ rescue = 0
    /\ CallsOf("run_interactive") # {}
    /\ calls[Len(calls)].arg = "SVC_TYPE_RESPAWN"

\* crank_worker has run and was the first to make a call: sm_init and then
\* sm_step
CrankedFirst ==
    /\ Cardinality(CallsOf("sm_init")) = 1
    /\ Cardinality(CallsOf("sm_step")) = 1
    /\ calls[1].fn = "sm_init"
    /\ calls[2].fn = "sm_step"

\* C19: crank_worker runs exactly once, sm_init and then one sm_step, and
\* before the first tick of bootstrap_worker: its delay is the shorter one
\* and the loop's clock never runs backwards.
C19_CrankRunsOnceFirst ==
    /\ CRANK_DELAY < BOOTSTRAP_DELAY
    /\ [](Cardinality(CallsOf("sm_init")) <= 1 /\ Cardinality(CallsOf("sm_step")) <= 1)
    /\ []((polls # <<>> \/ ~Pending("crank_worker")) => CrankedFirst)
    /\ [][now' >= now]_vars
    /\ <>CrankedFirst

\* C19 witness: the first tick of bootstrap_worker, with crank_worker done
C19_Witness ==
    /\ Len(polls) = 1
    /\ now = BOOTSTRAP_DELAY
    /\ CrankedFirst

----------------------------------------------------------------------------
(* Properties of the configuration parser                                  *)

\* The level a runlevel token stands for: the number it writes (blanks and a
\* sign in front allowed) when that is one of 1-5, 7-9, and 2 for any other
\* token
TokenLevel(token) ==
    LET t    == SkipSpace(token)
        body == IF t # <<>> /\ t[1] \in {43, 45} THEN Tail(t) ELSE t
        num  == body # <<>> /\ \A i \in 1..Len(body) : body[i] \in 48..57
        val  == IF t # <<>> /\ t[1] = 45 THEN 0 - DigitsValue(body) ELSE DigitsValue(body)
    IN  IF num /\ val \in CfgLevels THEN val ELSE 2

\* The line the innermost parse_conf has just handled is this directive
JustHandled(kw) ==
    /\ pc = "conf_loop"
    /\ stack # <<>>
    /\ Top.pos > 0
    /\ MATCH_CMD(Top.line, kw)

\* C6: cfglevel is always one of 1-5, 7-9, and right after a runlevel
\* directive it is the level its token stands for, 2 for a token that is not
\* one of these levels.
C6_RunlevelResolves ==
    /\ cf.cfglevel \in CfgLevels
    /\ JustHandled(kw_runlevel) =>
          cf.cfglevel = TokenLevel(strip_line(After(Top.line, kw_runlevel)))

\* C6 witness: `runlevel 6` has just been handled and cfglevel is 2
C6_Witness ==
    /\ JustHandled(kw_runlevel)
    /\ Top.line = <<114, 117, 110, 108, 101, 118, 101, 108, 32, 54>> (* "runlevel 6" *)
    /\ cf.cfglevel = 2

\* C7: an include whose path does not exist as given, while a runparts
\* directory is configured and holds the file, parses the file under the
\* runparts directory.
C7_IncludeFallsBackToRunparts ==
    \A i \in 1..Len(included) :
        LET r == included[i]
        IN  (/\ ~fexist(strlcpy(r.path))
             /\ r.runparts # NULL
             /\ fexist(PathJoin(r.runparts, r.path)))
            => r.file = PathJoin(r.runparts, r.path)

\* The next line read is an include whose file exists neither as given nor
\* under rcsd
IncludeMisses ==
    /\ pc = "conf_loop"
    /\ stack # <<>>
    /\ ~AtEof
    /\ MATCH_CMD(NextLine, kw_include)
    /\ LET file == strip_line(After(NextLine, kw_include))
       IN  ~fexist(strlcpy(file)) /\ ~fexist(PathJoin(rcsd, file))

\* C8: handling an include whose file is in neither place enters no further
\* parse_conf, leaves the configuration globals and the registries as they
\* were, leaves the return value alone, and leaves the including file open
\* one line further on, so that its remaining lines are read; a root file
\* that was opened returns 0.
C8_MissingIncludeIsSkipped ==
    /\ [][IncludeMisses =>
            /\ cf' = cf
            /\ Len(stack') = Len(stack)
            /\ stack'[Len(stack')].file = Top.file
            /\ stack'[Len(stack')].pos = Top.pos + 1
            /\ result' = result
            /\ pc' = pc]_vars
    /\ []((pc = "conf_done" /\ fexist(FINIT_CONF)) => result = 0)

\* C8 witness: the root file's first line was an include found in neither
\* place, and the service declared on a later line is registered
C8_Witness ==
    /\ pc = "conf_done"
    /\ result = 0
    /\ Len(included) = 1
    /\ included[1].file = NULL
    /\ MATCH_CMD(fs[FINIT_CONF].content[1], kw_include)
    /\ Len(cf.svcs) = 1

\* A name ends in ".conf"
NameEndsConf(n) == Len(n) >= 5 /\ \A k \in 1..5 : n[Len(n) - 5 + k] = <<46, 99, 111, 110, 102>> (* ".conf" *)[k]

\* An entry of the fragment directory that is to be loaded
Loadable(n) ==
    LET p == rcsd \o <<47>> \o n
    IN  /\ p \in DOMAIN fs
        /\ fs[p].kind = "file"
        /\ ~fs[p].exec
        /\ NameEndsConf(n)

\* C9: what parse_finit_d has loaded are entries of the directory that are
\* non-directory, non-executable files named *.conf, in strictly ascending
\* order of name (so each once), and when it returns 0 every such entry has
\* been loaded.
C9_LoadsExactlyTheConfFiles ==
    /\ \A i \in 1..Len(loaded) : loaded[i].name \in dents /\ Loadable(loaded[i].name)
    /\ \A i \in 1..Len(loaded) : \A j \in 1..Len(loaded) :
          i < j => StrLess(loaded[i].name, loaded[j].name)
    /\ (pc = "dir_done" /\ result = 0) =>
          {loaded[i].name : i \in 1..Len(loaded)} = {n \in dents : Loadable(n)}

\* C9 witness: the directory holds a.conf, b.conf, the executable c.sh and
\* the subdirectory d.conf; a.conf and b.conf have been loaded, in that order
C9_Witness ==
    /\ pc = "dir_done"
    /\ dents = { <<97, 46, 99, 111, 110, 102>> (* "a.conf" *), <<98, 46, 99, 111, 110, 102>> (* "b.conf" *), <<99, 46, 115, 104>> (* "c.sh" *), <<100, 46, 99, 111, 110, 102>> (* "d.conf" *) } \cup DotNames
    /\ fs[PathJoin(rcsd, <<99, 46, 115, 104>> (* "c.sh" *))].exec
    /\ fs[PathJoin(rcsd, <<100, 46, 99, 111, 110, 102>> (* "d.conf" *))].kind = "dir"
    /\ Len(loaded) = 2
    /\ loaded[1].name = <<97, 46, 99, 111, 110, 102>> (* "a.conf" *)
    /\ loaded[2].name = <<98, 46, 99, 111, 110, 102>> (* "b.conf" *)

\* The static configuration state
StaticState ==
    <<cf.cfglevel, cf.hostname, cf.username, cf.network, cf.runparts,
      cf.console, cf.sdown, cf.ttys>>

\* C10: no step of parse_finit_d, whatever the lines of the fragment it
\* loads, changes the static configuration state.
C10_FragmentsLeaveStaticState == [][StaticState' = StaticState]_vars

\* C10 witness: a fragment with a line that begins with a static keyword has
\* been loaded, and a service of it is registered
C10_Witness ==
    /\ pc = "dir_done"
    /\ \E i \in 1..Len(loaded) :
          \E k \in 1..Len(fs[loaded[i].path].content) :
             \E kw \in StaticKeywords : MATCH_CMD(fs[loaded[i].path].content[k], kw)
    /\ cf.svcs # <<>>
    /\ StaticState = <<RUNLEVEL, DEFHOST, DEFUSER, NULL, NULL, NULL, NULL, <<FALLBACK_SHELL>> >>

----------------------------------------------------------------------------
(* Properties of parse_runlevels, checked under MaskSpec                   *)

\* parse_runlevels has returned the mask of the text it was given
Returned == pc = "rl_done"

\* The levels whose bits are set in a mask
MaskBits(mask) == {i \in 0..9 : Bit(mask, i) = 1}

\* The mask with exactly the bits of the levels in S
MaskOf(S) == CHOOSE m \in 0..1023 : MaskBits(m) = S

\* The index of the closing bracket of a text, or one past its end
RlClose(t) ==
    IF \E i \in 2..Len(t) : t[i] = 93
    THEN CHOOSE i \in 2..Len(t) : t[i] = 93 /\ \A j \in 2..(i - 1) : t[j] # 93
    ELSE Len(t) + 1

\* The indexes of the ! of a text, between its brackets
RlBangs(t) == {i \in 2..(RlClose(t) - 1) : t[i] = 33}

RlLastBang(t) == CHOOSE i \in RlBangs(t) : \A j \in RlBangs(t) : j <= i

\* The level a character names: a digit its value, s and S the level 0
RlNames(c) == c \in 48..57 \/ c = 83 \/ c = 115

RlLevelOf(c) == IF c = 83 \/ c = 115 THEN 0 ELSE c - 48

\* The levels named behind the last ! of a negated text
RlNamedAfterBang(t) ==
    {RlLevelOf(t[i]) : i \in {j \in (RlLastBang(t) + 1)..(RlClose(t) - 1) : RlNames(t[j])}}

\* C11: a text with a ! before its closing bracket yields the mask of the
\* levels 1 to 9 less the levels named behind the ! (the last one, when the
\* text has several); "[!06]" yields 1,2,3,4,5,7,8,9 and "[!]" yields all of
\* 1 to 9; bit 0 is never set in such a mask.
C11_NegatedMask ==
    (Returned /\ runlevels # NULL /\ RlBangs(runlevels) # {}) =>
        /\ bitmask \in 0..1023
        /\ MaskBits(bitmask) = (1..9) \ RlNamedAfterBang(runlevels)
        /\ 0 \notin MaskBits(bitmask)
        /\ runlevels = <<91, 33, 48, 54, 93>> (* "[!06]" *) => MaskBits(bitmask) = {1, 2, 3, 4, 5, 7, 8, 9}
        /\ runlevels = <<91, 33, 93>> (* "[!]" *) => MaskBits(bitmask) = 1..9

C11_Witness ==
    /\ Returned
    /\ runlevels = <<91, 33, 48, 54, 93>> (* "[!06]" *)
    /\ bitmask = MaskOf({1, 2, 3, 4, 5, 7, 8, 9})

\* The text t with 0 written at the indexes in P
RlWithZeroAt(t, P) == [i \in 1..Len(t) |-> IF i \in P THEN 48 ELSE t[i]]

\* The indexes of the s and S of a text
RlEsses(t) == {i \in 1..Len(t) : t[i] = 83 \/ t[i] = 115}

\* C12: s and S are read as the digit 0: the mask of a text is the mask of
\* the text with any of its s or S replaced by 0; "[S]" and "[0]" both yield
\* the mask with bit 0 alone.
C12_SIsZero ==
    (Returned /\ runlevels # NULL) =>
        /\ \A P \in SUBSET RlEsses(runlevels) :
              parse_runlevels(RlWithZeroAt(runlevels, P)) = bitmask
        /\ runlevels \in { <<91, 83, 93>> (* "[S]" *), <<91, 115, 93>> (* "[s]" *), <<91, 48, 93>> (* "[0]" *) } => bitmask = 1

C12_Witness ==
    /\ Returned
    /\ runlevels = <<91, 83, 93>> (* "[S]" *)
    /\ MaskBits(bitmask) = {0}

\* C13: without a text parse_runlevels returns the mask of the levels 2, 3
\* and 4, the mask it returns for "[234]".
C13_DefaultMask ==
    /\ (Returned /\ runlevels = NULL) =>
          /\ bitmask = parse_runlevels( <<91, 50, 51, 52, 93>> (* "[234]" *) )
          /\ MaskBits(bitmask) = {2, 3, 4}
    /\ (Returned /\ runlevels = <<91, 50, 51, 52, 93>> (* "[234]" *) ) => bitmask = MaskOf({2, 3, 4})

C13_Witness ==
    /\ Returned
    /\ runlevels = NULL
    /\ bitmask = 28

----------------------------------------------------------------------------
(* Properties of the classification of a line, checked under ConfSpec      *)

\* The keywords of the configuration language as the manual writes them
StaticWords ==
    { <<99, 104, 101, 99, 107, 32>> (* "check " *), <<117, 115, 101, 114, 32>> (* "user " *), <<104, 111, 115, 116, 32>> (* "host " *), <<109, 111, 100, 117, 108, 101, 32>> (* "module " *), <<109, 107, 110, 111, 100, 32>> (* "mknod " *), <<110, 101, 116, 119, 111, 114, 107, 32>> (* "network " *),
      <<114, 117, 110, 112, 97, 114, 116, 115, 32>> (* "runparts " *), <<105, 110, 99, 108, 117, 100, 101, 32>> (* "include " *), <<115, 116, 97, 114, 116, 120, 32>> (* "startx " *), <<115, 104, 117, 116, 100, 111, 119, 110, 32>> (* "shutdown " *), <<114, 117, 110, 108, 101, 118, 101, 108, 32>> (* "runlevel " *),
      <<99, 111, 110, 115, 111, 108, 101, 32>> (* "console " *), <<116, 116, 121, 32>> (* "tty " *) }

DynamicWords == { <<115, 101, 114, 118, 105, 99, 101, 32>> (* "service " *), <<116, 97, 115, 107, 32>> (* "task " *), <<114, 117, 110, 32>> (* "run " *), <<105, 110, 101, 116, 100, 32>> (* "inetd " *) }

DirectiveWords == StaticWords \cup DynamicWords

Lower(c) == IF c \in 65..90 THEN c + 32 ELSE c

\* The line l starts with the word w in some mix of upper and lower case
StartsWith(l, w) ==
    /\ Len(l) >= Len(w)
    /\ \A i \in 1..Len(w) : Lower(l[i]) = w[i]

\* The line l with its keyword, if it starts with one, in lower case
LowerKeyword(l) ==
    IF \E w \in DirectiveWords : StartsWith(l, w)
    THEN LET w == CHOOSE v \in DirectiveWords : StartsWith(l, v)
         IN  w \o SubSeq(l, Len(w) + 1, Len(l))
    ELSE l

\* parse_conf is about to read a line
ReadsLine ==
    /\ pc = "conf_loop"
    /\ stack # <<>>
    /\ ~AtEof

\* This step of parse_conf does to the configuration globals, the registries,
\* the include log and the stack of open files what handling the line l does
HandledAs(l) ==
    LET s == parse_static(cf, l)
    IN  /\ cf' = IF s.inc # NULL THEN s.cf ELSE parse_dynamic(s.cf, s.line, 0)
        /\ Len(stack') = Len(stack) + (IF s.inc # NULL THEN 1 ELSE 0)
        /\ included' = IF s.asked # NULL
                       THEN Append(included, [path |-> s.asked, file |-> s.inc,
                                              runparts |-> cf.runparts])
                       ELSE included

\* The line the root file consists of has been handled
HandledOnly(l) ==
    /\ pc = "conf_loop"
    /\ Len(stack) = 1
    /\ Top.pos = 1
    /\ fgets_lines(FINIT_CONF) = <<l>>

\* The descriptor parse_dynamic registers for a service line of the root file
ServiceOf(line) ==
    [type |-> "SVC_TYPE_SERVICE", line |-> line, mtime |-> 0, user |-> NULL]

\* C14: a line whose keyword is written in any mix of upper and lower case
\* is handled as the line with the keyword in lower case; "service /bin/true"
\* in any case registers a service with the command line /bin/true.
C14_KeywordsIgnoreCase ==
    [][ReadsLine =>
          /\ HandledAs(LowerKeyword(NextLine))
          /\ (/\ StartsWith(NextLine, <<115, 101, 114, 118, 105, 99, 101, 32>> (* "service " *) )
              /\ SubSeq(NextLine, 9, Len(NextLine)) = <<47, 98, 105, 110, 47, 116, 114, 117, 101>> (* "/bin/true" *) )
             => cf'.svcs = Append(cf.svcs, ServiceOf( <<47, 98, 105, 110, 47, 116, 114, 117, 101>> (* "/bin/true" *) ))]_vars

C14_Witness ==
    /\ HandledOnly( <<83, 101, 82, 118, 73, 99, 69, 32, 47, 98, 105, 110, 47, 116, 114, 117, 101>> (* "SeRvIcE /bin/true" *) )
    /\ cf.svcs = <<ServiceOf( <<47, 98, 105, 110, 47, 116, 114, 117, 101>> (* "/bin/true" *) )>>

\* A line that is blank, or a comment with or without blanks before it, or
\* that starts, behind its leading blanks, with no keyword
NoDirective(l) ==
    LET t == SkipBlanks(l)
    IN  \/ t = <<>>
        \/ t[1] = 35
        \/ \A w \in DirectiveWords : ~StartsWith(t, w)

\* C15: a blank line, a comment line (blanks before the # or not) and a line
\* that starts with no keyword are no directive for either handler of
\* parse_conf: no service is registered, no global changes, no file is
\* included, and the next line of the file is read.
C15_NoDirectiveNoEffect ==
    [][(ReadsLine /\ NoDirective(NextLine)) =>
          /\ cf' = cf
          /\ included' = included
          /\ Len(stack') = Len(stack)
          /\ stack'[Len(stack)].pos = Top.pos + 1]_vars

C15_Witness ==
    /\ HandledOnly( <<32, 32, 35, 32, 115, 101, 114, 118, 105, 99, 101, 32, 47, 120>> (* "  # service /x" *) )
    /\ cf.svcs = <<>>
    /\ cf.hostname = DEFHOST

\* C16: a line behind leading blanks is handled as the line without them.
C16_LeadingBlanksIgnored ==
    [][ReadsLine => HandledAs(SkipBlanks(NextLine))]_vars

\* C20: no line of the root file or of a file it includes is matched by a
\* keyword of parse_static and then, as parse_static leaves the buffer, by a
\* keyword of parse_dynamic.
C20_OneHandlerPerLine ==
    [][ReadsLine =>
          ~ /\ \E k \in StaticKeywords : MATCH_CMD(NextLine, k)
            /\ \E k \in {kw_service, kw_task, kw_run, kw_inetd} :
                  MATCH_CMD(stack'[Len(stack)].line, k)]_vars

\* C20 witness: parse_static has cut the buffer of a host line at its
\* comment, which reads like a service line
C20_Witness ==
    /\ HandledOnly( <<104, 111, 115, 116, 32, 97, 35, 115, 101, 114, 118, 105, 99, 101, 32, 47, 98>> (* "host a#service /b" *) )
    /\ Top.line = <<104, 111, 115, 116, 32, 97>> (* "host a" *)
    /\ cf.hostname = <<97>> (* "a" *)
    /\ cf.svcs = <<>>

----------------------------------------------------------------------------
(* Properties of what loading leaves in the registries, checked under      *)
(* LoadSpec and ConfSpec                                                   *)

\* parse_finit_conf is running or has returned; parse_finit_d likewise
InConf == pc \in {"conf_start", "conf_loop", "conf_done"}
InDir  == pc \in {"dir_start", "dir_loop", "dir_done"}

\* A line read from the file at path p is a dynamic directive with this
\* command line
HoldsDynamic(p, line) ==
    \E k \in 1..Len(fgets_lines(p)) :
        \E w \in DynamicWords :
            /\ StartsWith(fgets_lines(p)[k], w)
            /\ SubSeq(fgets_lines(p)[k], Len(w) + 1, Len(fgets_lines(p)[k])) = line

\* The paths of the entries of the fragment directory that are there
FragmentPaths == {p \in {rcsd \o <<47>> \o n : n \in dents} : p \in DOMAIN fs}

\* C21: every descriptor registered while parse_finit_conf reads the root
\* file and the files it includes has the time 0, and every descriptor
\* registered by parse_finit_d has the modification time of a fragment that
\* holds its directive.
C21_MtimeOfDescriptors ==
    /\ InConf => \A i \in 1..Len(cf.svcs) : cf.svcs[i].mtime = 0
    /\ InDir =>
          \A i \in 1..Len(cf.svcs) :
              \E p \in FragmentPaths :
                  /\ HoldsDynamic(p, cf.svcs[i].line)
                  /\ cf.svcs[i].mtime = fs[p].mtime
                  /\ cf.svcs[i].mtime # 0

\* C21 witness: parse_finit_d has loaded two fragments and the descriptors
\* of each carry its time
C21_Witness ==
    /\ pc = "dir_done"
    /\ \E i \in 1..Len(cf.svcs) :
          cf.svcs[i].line = <<47, 97>> (* "/a" *) /\ cf.svcs[i].mtime = FragMtime( <<97, 46, 99, 111, 110, 102>> (* "a.conf" *) )
    /\ \E i \in 1..Len(cf.svcs) :
          cf.svcs[i].line = <<47, 98>> (* "/b" *) /\ cf.svcs[i].mtime = FragMtime( <<98, 46, 99, 111, 110, 102>> (* "b.conf" *) )

\* A line of a file cut to what the line buffer holds
Truncated(l) == SubSeq(l, 1, Min(Len(l), LINE_SIZE - 1))

\* C22: what parse_conf offers to the handlers is, for the k-th time it reads
\* from a file, the k-th line of the file cut to the maximum length: what a
\* line has beyond the maximum is never offered as a line of its own.
C22_LongLinesTruncated ==
    [][ReadsLine =>
          /\ Top.pos < Len(fs[Top.file].content)
          /\ NextLine = Truncated(fs[Top.file].content[Top.pos + 1])]_vars

\* The lines of the root file, none if it cannot be opened
RootLines == IF FINIT_CONF \in DOMAIN fs THEN fs[FINIT_CONF].content ELSE <<>>

\* The console directives of the root file, and the device the last one names
ConsoleLines == {k \in 1..Len(RootLines) : StartsWith(RootLines[k], <<99, 111, 110, 115, 111, 108, 101, 32>> (* "console " *) )}

ConsoleNamed ==
    LET k == CHOOSE i \in ConsoleLines : \A j \in ConsoleLines : j <= i
    IN  strip_line(SubSeq(RootLines[k], 9, Len(RootLines[k])))

\* C23: when parse_finit_conf has returned, a TTY is registered, whatever
\* the root file holds and whether it could be opened; its last step adds
\* nothing when a TTY is registered already, and else registers one TTY: the
\* console a console directive named, or the fallback shell if there was no
\* such directive.
C23_TtyFallback ==
    /\ [](pc = "conf_done" => Len(cf.ttys) >= 1)
    /\ [][(pc = "conf_loop" /\ pc' = "conf_done") =>
            IF cf.ttys # <<>> THEN cf'.ttys = cf.ttys
            ELSE IF ConsoleLines # {} THEN cf'.ttys = <<ConsoleNamed>>
            ELSE cf'.ttys = <<FALLBACK_SHELL>>]_vars

\* C23 witness: the root file names a console and no TTY, and the console is
\* the one TTY registered
C23_Witness ==
    /\ pc = "conf_done"
    /\ RootLines = << <<99, 111, 110, 115, 111, 108, 101, 32, 47, 100, 101, 118, 47, 99>> (* "console /dev/c" *) >>
    /\ cf.ttys = << <<47, 100, 101, 118, 47, 99>> (* "/dev/c" *) >>

====
